---- MODULE Spec2Model ----
(***************************************************************************)
(* Model of the scientific calculator of src/script.js: the tokenizer, the *)
(* shunting-yard converter, the postfix evaluator with its operator and    *)
(* function table, and the key, memory and history handlers around them.   *)
(*                                                                         *)
(* Strings are sequences of one-character strings ("pi" stands for the     *)
(* single character U+03C0).  A JavaScript number is a record:             *)
(*   fin   an exactly representable finite double s*n/d, d a power of two  *)
(*         (s = -1, n = 0 is negative zero)                                *)
(*   inf   +Infinity or -Infinity                                          *)
(*   nan   NaN                                                             *)
(*   undef the value undefined (what Array.pop gives on an empty array)    *)
(*   sym   a double the model does not compute (a rounded quotient, a      *)
(*         transcendental result, Math.PI, Math.E): an uninterpreted term  *)
(*         f(x) over the operands it was computed from.                    *)
(* The code branches on a number in two places only, factorial's tests and *)
(* the number-to-string conversion; where such a branch would need the     *)
(* digits of a sym value the model marks the evaluation "unmodelled" and   *)
(* the actions leave that input out, instead of guessing an outcome.       *)
(***************************************************************************)
EXTENDS Integers, Sequences, FiniteSets, TLC

VARIABLES
    display,         \* display.value
    historyDisplay,  \* historyDisplay.textContent
    historyList,     \* the text of the <li> elements of historyList, in order
    checked,         \* degRadToggle.checked
    memory, isRadian, history,
    \* The last call of parseAndEvaluate, kept for observation:
    expression,      \* its argument
    tokens,          \* tokenize(expr)
    outputQueue,     \* the postfix sequence handed to evaluatePostfix
    stack,           \* the evaluation stack when the call ended
    applied,         \* the number of postfix tokens evaluatePostfix got through
    underflow,       \* whether a pop found the evaluation stack empty
    result,          \* the value returned
    thrown,          \* the message of the error thrown, NoError when none
    pc,              \* "idle" before the first call, then "returned" or "thrown"
    log,             \* every call so far: argument, angle mode and outcome
    steps            \* the number of events handled so far

vars == <<display, historyDisplay, historyList, checked, memory, isRadian, history,
          expression, tokens, outputQueue, stack, applied, underflow, result,
          thrown, pc, log, steps>>

-----------------------------------------------------------------------------
(* Numbers                                                                 *)

\* Largest integer the model computes with (TLC's integers are 32 bits wide;
\* every double below 2^53 is exact, so this only narrows what is computed).
MaxInt == (2^30 - 1) + 2^30

Val(k, s, n, d, f, x) ==
    [k |-> k, s |-> s, n |-> n, d |-> d, f |-> f, x |-> x, c |-> <<>>]
Fin(s, n, d) == Val("fin", s, n, d, "", <<>>)
IntVal(i) == IF i < 0 THEN Fin(-1, -i, 1) ELSE Fin(1, i, 1)
Inf(s) == Val("inf", s, 1, 0, "", <<>>)
NaN == Val("nan", 1, 0, 0, "", <<>>)
Undefined == Val("undef", 1, 0, 0, "", <<>>)
Sym(f, x) == Val("sym", 1, 0, 0, f, x)
\* The double nearest to a decimal literal that is no dyadic rational.
Lit(text) == [Sym("lit", <<>>) EXCEPT !.c = text]
MathPI == Sym("PI", <<>>)
MathE == Sym("E", <<>>)

\* ToNumber(undefined) is NaN: both poison every arithmetic operation.
IsNaNLike(v) == v.k \in {"nan", "undef"}
IsZero(v) == v.k = "fin" /\ v.n = 0

RECURSIVE Gcd(_, _)
Gcd(a, b) == IF b = 0 THEN a ELSE Gcd(b, a % b)

RECURSIVE IsPow2(_)
IsPow2(d) == IF d = 1 THEN TRUE ELSE IF d % 2 # 0 THEN FALSE ELSE IsPow2(d \div 2)

MulFits(a, b) == a = 0 \/ b <= MaxInt \div a

\* The double s*n/d when it is exact (a dyadic rational), else the sym term.
Norm(s, n, d, term) ==
    LET g == Gcd(n, d) IN
    IF n = 0 THEN Fin(s, 0, 1)
    ELSE IF IsPow2(d \div g) THEN Fin(s, n \div g, d \div g)
    ELSE term

Neg(v) == IF v.k \in {"fin", "inf"} THEN [v EXCEPT !.s = -v.s] ELSE v

\* a + b of IEEE 754.
Add(a, b) ==
    IF IsNaNLike(a) \/ IsNaNLike(b) THEN NaN
    ELSE IF a.k = "sym" \/ b.k = "sym" THEN Sym("+", <<a, b>>)
    ELSE IF a.k = "inf" THEN (IF b.k = "inf" /\ b.s # a.s THEN NaN ELSE a)
    ELSE IF b.k = "inf" THEN b
    ELSE IF ~(MulFits(a.n, b.d) /\ MulFits(b.n, a.d) /\ MulFits(a.d, b.d))
         THEN Sym("+", <<a, b>>)
    ELSE LET x == a.n * b.d
             y == b.n * a.d
             den == a.d * b.d
         IN  IF a.s = b.s
             THEN IF x > MaxInt - y THEN Sym("+", <<a, b>>)
                  ELSE Norm(a.s, x + y, den, Sym("+", <<a, b>>))
             ELSE IF x = y THEN Fin(1, 0, 1)
                  ELSE IF x > y THEN Norm(a.s, x - y, den, Sym("+", <<a, b>>))
                  ELSE Norm(b.s, y - x, den, Sym("+", <<a, b>>))

\* a - b
Sub(a, b) ==
    IF IsNaNLike(a) \/ IsNaNLike(b) THEN NaN
    ELSE IF a.k = "sym" \/ b.k = "sym" THEN Sym("-", <<a, b>>)
    ELSE Add(a, Neg(b))

\* a * b
Mul(a, b) ==
    IF IsNaNLike(a) \/ IsNaNLike(b) THEN NaN
    ELSE IF a.k = "sym" \/ b.k = "sym" THEN Sym("*", <<a, b>>)
    ELSE IF a.k = "inf" \/ b.k = "inf"
         THEN (IF IsZero(a) \/ IsZero(b) THEN NaN ELSE Inf(a.s * b.s))
    ELSE IF ~(MulFits(a.n, b.n) /\ MulFits(a.d, b.d)) THEN Sym("*", <<a, b>>)
    ELSE Norm(a.s * b.s, a.n * b.n, a.d * b.d, Sym("*", <<a, b>>))

\* a / b
Div(a, b) ==
    IF IsNaNLike(a) \/ IsNaNLike(b) THEN NaN
    ELSE IF a.k = "sym" \/ b.k = "sym" THEN Sym("/", <<a, b>>)
    ELSE IF a.k = "inf" THEN (IF b.k = "inf" THEN NaN ELSE Inf(a.s * b.s))
    ELSE IF b.k = "inf" THEN Fin(a.s * b.s, 0, 1)
    ELSE IF b.n = 0 THEN (IF a.n = 0 THEN NaN ELSE Inf(a.s * b.s))
    ELSE IF ~(MulFits(a.n, b.d) /\ MulFits(a.d, b.n)) THEN Sym("/", <<a, b>>)
    ELSE Norm(a.s * b.s, a.n * b.d, a.d * b.n, Sym("/", <<a, b>>))

IsInteger(v) == v.k = "fin" /\ v.d = 1
IsOddInteger(v) == IsInteger(v) /\ v.n % 2 = 1

\* acc * base^k for an integer k >= 0 by repeated multiplication, given up
\* when the product has left the numbers the model computes.
RECURSIVE IntPowFrom(_, _, _)
IntPowFrom(acc, base, k) ==
    IF k = 0 \/ acc.k = "sym" THEN acc ELSE IntPowFrom(Mul(acc, base), base, k - 1)

\* base^k for a finite base and an integer k >= 1.
IntPow(base, k) ==
    IF base.n = base.d
    THEN Fin(IF base.s = -1 /\ k % 2 = 1 THEN -1 ELSE 1, 1, 1)
    ELSE IntPowFrom(base, base, k - 1)

\* |v| compared with 1 for a finite v: -1, 0 or 1.
CmpAbsOne(v) == IF v.n < v.d THEN -1 ELSE IF v.n = v.d THEN 0 ELSE 1

\* Math.pow(a, b) (Number::exponentiate of ECMAScript).
MathPow(a, b) ==
    IF IsNaNLike(b) THEN NaN
    ELSE IF IsZero(b) THEN Fin(1, 1, 1)
    ELSE IF IsNaNLike(a) THEN NaN
    ELSE IF a.k = "sym" \/ b.k = "sym" THEN Sym("pow", <<a, b>>)
    ELSE IF a.k = "inf" \/ IsZero(a) THEN
        LET big == (a.k = "inf") = (b.s = 1)
            sgn == IF a.s = -1 /\ IsOddInteger(b) THEN -1 ELSE 1
        IN  IF big THEN Inf(sgn) ELSE Fin(sgn, 0, 1)
    ELSE IF b.k = "inf" THEN
        IF CmpAbsOne(a) = 0 THEN NaN
        ELSE IF (CmpAbsOne(a) = 1) = (b.s = 1) THEN Inf(1) ELSE Fin(1, 0, 1)
    ELSE IF ~IsInteger(b) THEN (IF a.s = -1 THEN NaN ELSE Sym("pow", <<a, b>>))
    ELSE LET p == IntPow(a, b.n) IN
         IF b.s = 1 THEN (IF p.k = "sym" THEN Sym("pow", <<a, b>>) ELSE p)
         ELSE IF p.k = "sym" \/ Div(Fin(1, 1, 1), p).k = "sym"
              THEN Sym("pow", <<a, b>>)
              ELSE Div(Fin(1, 1, 1), p)

\* The r in lo..hi with r * r = n, or -1 when there is none (by bisection).
RECURSIVE IntSqrtBetween(_, _, _)
IntSqrtBetween(n, lo, hi) ==
    IF lo > hi THEN -1
    ELSE LET mid == (lo + hi) \div 2 IN
         IF mid * mid = n THEN mid
         ELSE IF mid * mid < n THEN IntSqrtBetween(n, mid + 1, hi)
         ELSE IntSqrtBetween(n, lo, mid - 1)

\* The integer square root of n >= 1 when n is a perfect square, else -1.
IntSqrt(n) == IntSqrtBetween(n, 1, 2^15)

\* Math.sqrt(a)
MathSqrt(a) ==
    IF IsNaNLike(a) THEN NaN
    ELSE IF a.k = "sym" THEN Sym("sqrt", <<a>>)
    ELSE IF IsZero(a) THEN a
    ELSE IF a.s = -1 THEN NaN
    ELSE IF a.k = "inf" THEN a
    ELSE IF IntSqrt(a.n) > 0 /\ IntSqrt(a.d) > 0 THEN Fin(1, IntSqrt(a.n), IntSqrt(a.d))
    ELSE Sym("sqrt", <<a>>)

\* Math.sin, Math.cos, Math.tan
MathTrig(f, a) ==
    IF IsNaNLike(a) \/ a.k = "inf" THEN NaN
    ELSE IF IsZero(a) THEN (IF f = "cos" THEN Fin(1, 1, 1) ELSE a)
    ELSE Sym(f, <<a>>)

\* Math.asin, Math.acos, Math.atan
MathInvTrig(f, a) ==
    IF IsNaNLike(a) THEN NaN
    ELSE IF a.k = "sym" THEN Sym(f, <<a>>)
    ELSE IF f = "atan" THEN (IF IsZero(a) THEN a ELSE Sym(f, <<a>>))
    ELSE IF a.k = "inf" \/ CmpAbsOne(a) = 1 THEN NaN
    ELSE IF f = "asin" /\ IsZero(a) THEN a
    ELSE IF f = "acos" /\ a = Fin(1, 1, 1) THEN Fin(1, 0, 1)
    ELSE Sym(f, <<a>>)

\* Math.log10 and Math.log
MathLog(f, a) ==
    IF IsNaNLike(a) THEN NaN
    ELSE IF a.k = "sym" THEN Sym(f, <<a>>)
    ELSE IF IsZero(a) THEN Inf(-1)
    ELSE IF a.s = -1 THEN NaN
    ELSE IF a.k = "inf" THEN a
    ELSE IF a = Fin(1, 1, 1) THEN Fin(1, 0, 1)
    ELSE Sym(f, <<a>>)

-----------------------------------------------------------------------------
(* Strings                                                                 *)

Digits == {"0", "1", "2", "3", "4", "5", "6", "7", "8", "9"}
DigitVal(c) ==
    CASE c = "0" -> 0 [] c = "1" -> 1 [] c = "2" -> 2 [] c = "3" -> 3
      [] c = "4" -> 4 [] c = "5" -> 5 [] c = "6" -> 6 [] c = "7" -> 7
      [] c = "8" -> 8 [] c = "9" -> 9
DigitChar(i) ==
    CASE i = 0 -> "0" [] i = 1 -> "1" [] i = 2 -> "2" [] i = 3 -> "3"
      [] i = 4 -> "4" [] i = 5 -> "5" [] i = 6 -> "6" [] i = 7 -> "7"
      [] i = 8 -> "8" [] i = 9 -> "9"

\* The number of digits of s from position p on (0 when s[p] is no digit).
RECURSIVE DigitRun(_, _)
DigitRun(s, p) ==
    IF p <= Len(s) /\ s[p] \in Digits THEN 1 + DigitRun(s, p + 1) ELSE 0

HasPrefixAt(s, p, w) ==
    /\ p + Len(w) - 1 <= Len(s)
    /\ \A i \in 1..Len(w) : s[p + i - 1] = w[i]

RECURSIVE Concat(_)
Concat(ss) == IF ss = <<>> THEN <<>> ELSE Head(ss) \o Concat(Tail(ss))

\* The decimal digits of a natural number.
RECURSIVE NatToString(_)
NatToString(n) ==
    IF n < 10 THEN <<DigitChar(n)>>
    ELSE NatToString(n \div 10) \o <<DigitChar(n % 10)>>

\* The value of a run of digits, -1 when it does not fit the model's integers.
RECURSIVE DigitsValue(_, _)
DigitsValue(s, acc) ==
    IF s = <<>> THEN acc
    ELSE IF acc < 0 \/ acc > (MaxInt - 9) \div 10 THEN -1
    ELSE DigitsValue(Tail(s), acc * 10 + DigitVal(Head(s)))

RECURSIVE Pow10(_)
Pow10(k) == IF k = 0 THEN 1 ELSE 10 * Pow10(k - 1)

\* The double nearest to the decimal ip.fp * 10^e10 (ip, fp digit strings):
\* exact when that is a dyadic rational the model's integers hold, else a sym
\* term that names the decimal.
DecimalScaled(all, sh, lit) ==
    IF all < 0 \/ sh > 9 \/ sh < -9 THEN lit
    ELSE IF sh >= 0
         THEN (IF MulFits(all, Pow10(sh)) THEN Fin(1, all * Pow10(sh), 1) ELSE lit)
         ELSE Norm(1, all, Pow10(-sh), lit)

DecimalValue(ip, fp, e10, text) ==
    DecimalScaled(DigitsValue(ip \o fp, 0), e10 - Len(fp), Lit(text))

\* The number of digits after the dot that follows n1 leading digits of s
\* (-1 when no dot follows them).
FractionRun(s, n1) ==
    IF n1 < Len(s) /\ s[n1 + 1] = "." THEN DigitRun(s, n1 + 2) ELSE -1

LexemeShape(s, n1, n2) == n1 >= 1 /\ Len(s) = n1 + 1 + n2

\* A string of the shape \d+\.?\d* (what the tokenizer's number pattern gives).
IsNumericLexeme(s) == LexemeShape(s, DigitRun(s, 1), FractionRun(s, DigitRun(s, 1)))

LexemeParts(s, n1) == DecimalValue(SubSeq(s, 1, n1), SubSeq(s, n1 + 2, Len(s)), 0, s)

LexemeValue(s) == LexemeParts(s, DigitRun(s, 1))

\* Elements of the output queue and of the evaluation stack are JavaScript
\* values: a string (a token) or a number.
Str(c) == <<"str", c>>
Num(v) == <<"num", v>>

\* isNaN(token): ToNumber of a token string is a number only for a numeric
\* lexeme; of a number it is the number.
isNaN(t) == IF t[1] = "str" THEN ~IsNumericLexeme(t[2]) ELSE t[2].k = "nan"

\* parseFloat adding the memory register to what it read.
parseFloat_PlusMemory(t) == Add(IF t[1] = "str" THEN LexemeValue(t[2]) ELSE t[2], memory)

\* parseFloat(token) for a token that is not isNaN: the lexeme's value; a
\* number is converted to its shortest round-trip string and parsed back.
parseFloat(t) == IF t[1] = "str" THEN LexemeValue(t[2]) ELSE t[2]

-----------------------------------------------------------------------------
(* Tokenizer                                                               *)

OpChars == {"+", "-", "*", "/", "^", "(", ")"}

\* The word alternatives of the pattern, in the pattern's order.
RegexWords ==
    << <<"s", "i", "n">>, <<"c", "o", "s">>, <<"t", "a", "n">>,
       <<"a", "s", "i", "n">>, <<"a", "c", "o", "s">>, <<"a", "t", "a", "n">>,
       <<"l", "o", "g">>, <<"l", "n">>, <<"s", "q", "r", "t">>,
       <<"f", "a", "c", "t">>, <<"pi">>, <<"e">>, <<"i">> >>

\* Length of the first word alternative, from the i-th on, matching at p.
RECURSIVE WordMatch(_, _, _)
WordMatch(s, p, i) ==
    IF i > Len(RegexWords) THEN 0
    ELSE IF HasPrefixAt(s, p, RegexWords[i]) THEN Len(RegexWords[i])
    ELSE WordMatch(s, p, i + 1)

\* Length of the match of \d+\.?\d* at p, where n1 >= 1 digits start.
NumberMatch(s, p, n1) ==
    n1 + (IF p + n1 <= Len(s) /\ s[p + n1] = "." THEN 1 + DigitRun(s, p + n1 + 1) ELSE 0)

\* Length of the match of the pattern at position p, 0 when none matches.
MatchAt(s, p) ==
    IF s[p] \in Digits THEN NumberMatch(s, p, DigitRun(s, p))
    ELSE IF s[p] \in OpChars THEN 1
    ELSE WordMatch(s, p, 1)

\* The tokens of s from position p on, m the length of the match at p.
RECURSIVE TokenizeFrom(_, _)
TokenizeStep(s, p, m) ==
    IF m = 0 THEN TokenizeFrom(s, p + 1)
    ELSE <<SubSeq(s, p, p + m - 1)>> \o TokenizeFrom(s, p + m)

TokenizeFrom(s, p) == IF p > Len(s) THEN <<>> ELSE TokenizeStep(s, p, MatchAt(s, p))

tokenize(expr) == TokenizeFrom(expr, 1)

-----------------------------------------------------------------------------
(* Operator and function table                                             *)

sin == <<"s", "i", "n">>
cos == <<"c", "o", "s">>
tan == <<"t", "a", "n">>
asin == <<"a", "s", "i", "n">>
acos == <<"a", "c", "o", "s">>
atan == <<"a", "t", "a", "n">>
log10 == <<"l", "o", "g">>
ln == <<"l", "n">>
sqrt == <<"s", "q", "r", "t">>
fact == <<"f", "a", "c", "t">>
LParen == <<"(">>
RParen == <<")">>

functions == {sin, cos, tan, asin, acos, atan, log10, ln, sqrt, fact}

Operators == {<<"+">>, <<"-">>, <<"*">>, <<"/">>, <<"^">>}

\* precedence[t]; 0 stands for undefined (t is no key of the table).
precedence(t) ==
    IF t \in {<<"+">>, <<"-">>} THEN 1
    ELSE IF t \in {<<"*">>, <<"/">>} THEN 2
    ELSE IF t = <<"^">> THEN 3
    ELSE 0

\* The comparison with > in place of >=.
PrecedenceGE_Strict(top, token) ==
    precedence(top) # 0 /\ precedence(token) # 0 /\ precedence(top) > precedence(token)

\* precedence[top] >= precedence[token]: false when either is undefined.
PrecedenceGE(top, token) ==
    precedence(top) # 0 /\ precedence(token) # 0 /\ precedence(top) >= precedence(token)

NoError == <<>>
InvalidOperator ==
    <<"I", "n", "v", "a", "l", "i", "d", " ", "o", "p", "e", "r", "a", "t", "o", "r">>
InvalidFactorial ==
    <<"I", "n", "v", "a", "l", "i", "d", " ", "f", "a", "c", "t", "o", "r", "i", "a", "l">>

\* What a call gives: a value returned, or a message thrown; unmodelled when
\* the code's branch depends on the digits of a sym value.
Returns(v) == [thrown |-> NoError, value |-> v, unmodelled |-> FALSE]
Throws(msg) == [thrown |-> msg, value |-> Undefined, unmodelled |-> FALSE]
Unmodelled == [thrown |-> NoError, value |-> Undefined, unmodelled |-> TRUE]

\* The loop of factorial: result *= i for i from 2 to n.
RECURSIVE FactorialLoop(_, _, _)
FactorialLoop(acc, i, n) ==
    IF i > n THEN acc ELSE FactorialLoop(Mul(acc, IntVal(i)), i + 1, n)

\* factorial with the loop condition i < n.
factorial_LoopShort(n) ==
    IF n.k = "sym" THEN Unmodelled
    ELSE IF n.k \in {"nan", "undef", "inf"} THEN Throws(InvalidFactorial)
    ELSE IF (n.s = -1 /\ n.n > 0) \/ n.d # 1 THEN Throws(InvalidFactorial)
    ELSE IF n.n = 0 THEN Returns(Fin(1, 1, 1))
    ELSE IF n.n <= 12 THEN Returns(FactorialLoop(Fin(1, 1, 1), 2, n.n - 1))
    ELSE IF n.n <= 170 THEN Returns(Sym("fact", <<n>>))
    ELSE Returns(Inf(1))

\* factorial(n).  13! and more exceed the model's integers: up to 170! the
\* product is a finite double the model does not compute, from 171! on the
\* running product overflows to Infinity.
factorial(n) ==
    IF n.k = "sym" THEN Unmodelled
    ELSE IF n.k \in {"nan", "undef", "inf"} THEN Throws(InvalidFactorial)
    ELSE IF (n.s = -1 /\ n.n > 0) \/ n.d # 1 THEN Throws(InvalidFactorial)
    ELSE IF n.n = 0 THEN Returns(Fin(1, 1, 1))
    ELSE IF n.n <= 12 THEN Returns(FactorialLoop(Fin(1, 1, 1), 2, n.n))
    ELSE IF n.n <= 170 THEN Returns(Sym("fact", <<n>>))
    ELSE Returns(Inf(1))

\* angle with the test of isRadian inverted.
angle_Inverted(val, rad) == IF rad THEN Div(Mul(val, MathPI), IntVal(180)) ELSE val

\* angle(val) and invAngle(val) of applyOperator.
angle(val, rad) == IF rad THEN val ELSE Div(Mul(val, MathPI), IntVal(180))
invAngle(val, rad) == IF rad THEN val ELSE Div(Mul(val, IntVal(180)), MathPI)

applyOperator(op, a, b, rad) ==
    CASE op = <<"+">> -> Returns(Add(a, b))
      [] op = <<"-">> -> Returns(Sub(a, b))
      [] op = <<"*">> -> Returns(Mul(a, b))
      [] op = <<"/">> -> Returns(Div(a, b))
      [] op = <<"^">> -> Returns(MathPow(a, b))
      [] op = sin -> Returns(MathTrig("sin", angle(a, rad)))
      [] op = cos -> Returns(MathTrig("cos", angle(a, rad)))
      [] op = tan -> Returns(MathTrig("tan", angle(a, rad)))
      [] op = asin -> Returns(invAngle(MathInvTrig("asin", a), rad))
      [] op = acos -> Returns(invAngle(MathInvTrig("acos", a), rad))
      [] op = atan -> Returns(invAngle(MathInvTrig("atan", a), rad))
      [] op = log10 -> Returns(MathLog("log10", a))
      [] op = ln -> Returns(MathLog("ln", a))
      [] op = sqrt -> Returns(MathSqrt(a))
      [] op = fact -> factorial(a)
      [] OTHER -> Throws(InvalidOperator)

-----------------------------------------------------------------------------
(* Postfix evaluator                                                       *)

\* Array.pop: the last element, or undefined on an empty array.
Top(s) == s[Len(s)]
Pop(s) == IF s = <<>> THEN <<>> ELSE SubSeq(s, 1, Len(s) - 1)
PopValue(s) == IF s = <<>> THEN Undefined ELSE Top(s)

\* The function list of evaluatePostfix without sqrt.
IsUnaryFunction_NoSqrt(op) == op \in functions \ {sqrt}

\* ['sin', ..., 'fact'].includes(token) in evaluatePostfix.
IsUnaryFunction(op) == op \in functions

\* The state of an evaluation e (the stack, the message thrown, the number
\* of tokens got through, whether a pop found the stack empty) after the
\* call of applyOperator gave r, with s2 the stack left by the pops.
AfterApply(e, s2, under, r) ==
    IF r.unmodelled
    THEN [e EXCEPT !.stack = s2, !.unmodelled = TRUE, !.underflow = @ \/ under]
    ELSE IF r.thrown # NoError
    THEN [e EXCEPT !.stack = s2, !.thrown = r.thrown, !.underflow = @ \/ under]
    ELSE [e EXCEPT !.stack = Append(s2, r.value), !.applied = @ + 1,
                   !.underflow = @ \/ under]

\* One turn of the forEach of evaluatePostfix on a token.
EvalToken(e, token, rad) ==
    IF ~isNaN(token)
    THEN [e EXCEPT !.stack = Append(@, parseFloat(token)), !.applied = @ + 1]
    ELSE LET b == PopValue(e.stack)
             s1 == Pop(e.stack)
             unary == IsUnaryFunction(token[2])
             a == IF unary THEN b ELSE PopValue(s1)
             s2 == IF unary THEN s1 ELSE Pop(s1)
             under == e.stack = <<>> \/ (~unary /\ s1 = <<>>)
         IN  AfterApply(e, s2, under, applyOperator(token[2], a, b, rad))

RECURSIVE EvalFrom(_, _, _, _)
EvalFrom(e, postfix, i, rad) ==
    IF i > Len(postfix) \/ e.thrown # NoError \/ e.unmodelled THEN e
    ELSE EvalFrom(EvalToken(e, postfix[i], rad), postfix, i + 1, rad)

\* return stack[0]: undefined when the stack is empty.
ReturnValue(e) ==
    [stack |-> e.stack, thrown |-> e.thrown, applied |-> e.applied,
     underflow |-> e.underflow, unmodelled |-> e.unmodelled,
     value |-> IF e.stack = <<>> THEN Undefined ELSE e.stack[1]]

\* evaluatePostfix(postfix): the final state of the evaluation.
evaluatePostfix(postfix, rad) ==
    ReturnValue(EvalFrom([stack |-> <<>>, thrown |-> NoError, applied |-> 0,
                          underflow |-> FALSE, unmodelled |-> FALSE],
                         postfix, 1, rad))

-----------------------------------------------------------------------------
(* Shunting-yard converter                                                 *)

\* while (operatorStack.length && top !== '(') outputQueue.push(operatorStack.pop())
RECURSIVE PopUntilParen(_)
PopUntilParen(q) ==
    IF q.ops # <<>> /\ Top(q.ops) # LParen
    THEN PopUntilParen([out |-> Append(q.out, Str(Top(q.ops))), ops |-> Pop(q.ops)])
    ELSE q

\* while (operatorStack.length && precedence[top] >= precedence[token]) ...
RECURSIVE PopWhileGE(_, _)
PopWhileGE(q, token) ==
    IF q.ops # <<>> /\ PrecedenceGE(Top(q.ops), token)
    THEN PopWhileGE([out |-> Append(q.out, Str(Top(q.ops))), ops |-> Pop(q.ops)], token)
    ELSE q

\* The final loop leaving parentheses out of the output queue.
RECURSIVE PopAll_DropParen(_)
PopAll_DropParen(q) ==
    IF q.ops # <<>>
    THEN PopAll_DropParen([out |-> IF Top(q.ops) = <<"(">> THEN q.out
                                   ELSE Append(q.out, Str(Top(q.ops))),
                           ops |-> Pop(q.ops)])
    ELSE q

\* while (operatorStack.length) outputQueue.push(operatorStack.pop())
RECURSIVE PopAll(_)
PopAll(q) ==
    IF q.ops # <<>>
    THEN PopAll([out |-> Append(q.out, Str(Top(q.ops))), ops |-> Pop(q.ops)])
    ELSE q

\* One turn of the forEach of parseAndEvaluate on a token.
ParseToken(q, token) ==
    IF ~isNaN(Str(token)) \/ token = <<"pi">> \/ token = <<"e">> \/ token = <<"i">>
    THEN [q EXCEPT !.out = Append(@, IF token = <<"pi">> THEN Num(MathPI)
                                     ELSE IF token = <<"e">> THEN Num(MathE)
                                     ELSE Str(token))]
    ELSE IF token \in functions THEN [q EXCEPT !.ops = Append(@, token)]
    ELSE IF token = LParen THEN [q EXCEPT !.ops = Append(@, token)]
    ELSE IF token = RParen THEN
        LET q1 == PopUntilParen(q)
            q2 == [q1 EXCEPT !.ops = Pop(@)]
        IN  IF q2.ops # <<>> /\ Top(q2.ops) \in functions
            THEN [out |-> Append(q2.out, Str(Top(q2.ops))), ops |-> Pop(q2.ops)]
            ELSE q2
    ELSE [PopWhileGE(q, token) EXCEPT !.ops = Append(@, token)]

RECURSIVE ParseFrom(_, _, _)
ParseFrom(q, toks, i) ==
    IF i > Len(toks) THEN q ELSE ParseFrom(ParseToken(q, toks[i]), toks, i + 1)

\* The output queue parseAndEvaluate hands to evaluatePostfix.
toPostfix(toks) == PopAll(ParseFrom([out |-> <<>>, ops |-> <<>>], toks, 1)).out

\* What a call of parseAndEvaluate did: its locals and its outcome.
Outcome(toks, postfix, e) ==
    [tokens |-> toks, outputQueue |-> postfix, stack |-> e.stack,
     thrown |-> e.thrown, applied |-> e.applied, underflow |-> e.underflow,
     unmodelled |-> e.unmodelled, value |-> e.value]

EvaluateQueue(toks, postfix, rad) == Outcome(toks, postfix, evaluatePostfix(postfix, rad))

ParseTokens(toks, rad) == EvaluateQueue(toks, toPostfix(toks), rad)

\* parseAndEvaluate(expr) under the angle mode rad.
parseAndEvaluate(expr, rad) == ParseTokens(tokenize(expr), rad)

-----------------------------------------------------------------------------
(* Conversions between numbers and strings                                 *)

\* The values whose string the model computes: undefined, NaN, the
\* infinities, and the doubles n/d with d of 1, 2, 4 or 8 (their shortest
\* round-trip decimal is the exact one, and is written without exponent).
Printable(v) ==
    \/ v.k \in {"undef", "nan", "inf"}
    \/ v.k = "fin" /\ v.d <= 8

RECURSIVE Log2(_)
Log2(d) == IF d = 1 THEN 0 ELSE 1 + Log2(d \div 2)

RECURSIVE PadLeft(_, _)
PadLeft(s, k) == IF Len(s) >= k THEN s ELSE PadLeft(<<"0">> \o s, k)

\* String(v), as display.value = v and the history template do it.
NumberToString(v) ==
    CASE v.k = "undef" -> <<"u", "n", "d", "e", "f", "i", "n", "e", "d">>
      [] v.k = "nan" -> <<"N", "a", "N">>
      [] v.k = "inf" -> (IF v.s = -1 THEN <<"-">> ELSE <<>>)
                        \o <<"I", "n", "f", "i", "n", "i", "t", "y">>
      [] v.k = "fin" ->
            LET k == Log2(v.d)
                ip == NatToString(v.n \div v.d)
                fp == PadLeft(NatToString(((v.n % v.d) * Pow10(k)) \div v.d), k)
            IN  IF v.n = 0 THEN <<"0">>
                ELSE (IF v.s = -1 THEN <<"-">> ELSE <<>>) \o ip
                     \o (IF v.d = 1 THEN <<>> ELSE <<".">> \o fp)

RECURSIVE SkipSpaces(_, _)
SkipSpaces(s, p) == IF p <= Len(s) /\ s[p] = " " THEN SkipSpaces(s, p + 1) ELSE p

IsCharAt(s, p, cs) == p <= Len(s) /\ s[p] \in cs

\* The number sg * ip.fp * 10^e10 read from the text s[p..q-1].
FloatValue(s, p, q, sg, ip, fp, e10) ==
    LET v == DecimalValue(ip, fp, e10, SubSeq(s, p, q - 1))
    IN  IF v.k = "fin" THEN [v EXCEPT !.s = sg]
        ELSE IF sg = -1 THEN Sym("neg", <<v>>) ELSE v

\* The exponent part: e or E, a sign, n3 >= 1 digits from ep on; it is left
\* out when no digit follows.
FloatExponent(s, p, q, sg, ip, fp, ep, n3, neg) ==
    LET ev == DigitsValue(SubSeq(s, ep, ep + n3 - 1), 0)
    IN  IF n3 = 0 THEN FloatValue(s, p, q, sg, ip, fp, 0)
        ELSE IF ev < 0 THEN Lit(SubSeq(s, p, ep + n3 - 1))
        ELSE FloatValue(s, p, ep + n3, sg, ip, fp, IF neg THEN -ev ELSE ev)

\* The mantissa is s[p..q-1], n1 digits, then n2 digits after a dot.
FloatMantissa(s, p, q, sg, n1, n2) ==
    LET ep == IF IsCharAt(s, q + 1, {"+", "-"}) THEN q + 2 ELSE q + 1
    IN  FloatExponent(s, p, q, sg, SubSeq(s, p, p + n1 - 1),
                      SubSeq(s, p + n1 + 1, p + n1 + n2), ep,
                      IF IsCharAt(s, q, {"e", "E"}) THEN DigitRun(s, ep) ELSE 0,
                      IsCharAt(s, q + 1, {"-"}))

FloatDigits(s, p, sg, n1, n2) ==
    IF HasPrefixAt(s, p, <<"I", "n", "f", "i", "n", "i", "t", "y">>) THEN Inf(sg)
    ELSE IF n1 + n2 = 0 THEN NaN
    ELSE FloatMantissa(s, p, p + n1 + (IF IsCharAt(s, p + n1, {"."}) THEN 1 + n2 ELSE 0),
                       sg, n1, n2)

FloatInteger(s, p, sg, n1) ==
    FloatDigits(s, p, sg, n1,
                IF IsCharAt(s, p + n1, {"."}) THEN DigitRun(s, p + n1 + 1) ELSE 0)

FloatSigned(s, p0) ==
    LET p == IF IsCharAt(s, p0, {"+", "-"}) THEN p0 + 1 ELSE p0
    IN  FloatInteger(s, p, IF IsCharAt(s, p0, {"-"}) THEN -1 ELSE 1, DigitRun(s, p))

\* parseFloat(s) of an arbitrary string: leading blanks, a sign, then
\* Infinity or digits[.digits][e[sign]digits]; NaN when no number starts s.
ParseFloatString(s) == FloatSigned(s, SkipSpaces(s, 1))

\* x || 0 on a number: 0 when x is NaN or a zero.
OrZero(v) == IF v.k = "nan" \/ IsZero(v) THEN Fin(1, 0, 1) ELSE v

\* s.split('=')[0]
RECURSIVE BeforeEquals(_)
BeforeEquals(s) ==
    IF s = <<>> \/ Head(s) = "=" THEN <<>> ELSE <<Head(s)>> \o BeforeEquals(Tail(s))

\* s.trim()
RECURSIVE TrimRight(_)
TrimRight(s) == IF s # <<>> /\ s[Len(s)] = " " THEN TrimRight(SubSeq(s, 1, Len(s) - 1)) ELSE s
Trim(s) == TrimRight(SubSeq(s, SkipSpaces(s, 1), Len(s)))

-----------------------------------------------------------------------------
(* Bounds                                                                  *)

\* Events handled in one behaviour.
MaxSteps == 4
\* History entries (counted from the newest) a click is tried on, besides
\* the oldest one.
MaxClick == 2

\* Lexemes in a generated expression.
MaxTokens == 7
\* Largest argument fact is given.
MaxFactArg == 10

\* if (history.length > 50) history.pop()
HistoryLimit == 50

-----------------------------------------------------------------------------
(* Keys                                                                    *)

KeyEquals == <<"=">>
KeyEnter == <<"E", "n", "t", "e", "r">>
KeyC == <<"C">>
KeyEscape == <<"E", "s", "c", "a", "p", "e">>
KeyBackspace == <<"B", "a", "c", "k", "s", "p", "a", "c", "e">>
KeyMPlus == <<"m", "+">>
KeyMMinus == <<"m", "-">>
KeyMC == <<"m", "c">>
KeyMR == <<"m", "r">>

\* The data-key values of the keypad buttons the model presses, and the
\* event.key values it types into the display.
ButtonKeys ==
    {<<"2">>, <<"+">>, LParen, fact, KeyEquals, KeyC, KeyMPlus, KeyMMinus, KeyMC, KeyMR}
KeyboardKeys == {KeyEnter, KeyEscape, KeyBackspace, <<"3">>}

-----------------------------------------------------------------------------
(* Memory and history                                                      *)

\* renderHistory(): one <li> per entry, "<expression> = <result>".
renderHistory(h) ==
    [i \in 1..Len(h) |->
        h[i].expression \o <<" ", "=", " ">> \o NumberToString(h[i].result)]

\* addToHistory with the test history.length >= 50.
addToHistory_OffByOne(h, expr, res) ==
    LET h1 == <<[expression |-> expr, result |-> res]>> \o h
    IN  IF Len(h1) >= HistoryLimit THEN SubSeq(h1, 1, Len(h1) - 1) ELSE h1

\* addToHistory(expression, result): history after unshift and the pop.
addToHistory(h, expr, res) ==
    LET h1 == <<[expression |-> expr, result |-> res]>> \o h
    IN  IF Len(h1) > HistoryLimit THEN SubSeq(h1, 1, Len(h1) - 1) ELSE h1

Call(expr, rad, r) ==
    [expression |-> expr, isRadian |-> rad, thrown |-> r.thrown, value |-> r.value]

\* What a call of parseAndEvaluate leaves to observe.
Observe(expr, r) ==
    /\ expression' = expr
    /\ tokens' = r.tokens
    /\ outputQueue' = r.outputQueue
    /\ stack' = r.stack
    /\ applied' = r.applied
    /\ underflow' = r.underflow
    /\ thrown' = r.thrown
    /\ result' = IF r.thrown = NoError THEN r.value ELSE Undefined
    /\ pc' = IF r.thrown = NoError THEN "returned" ELSE "thrown"
    /\ log' = Append(log, Call(expr, isRadian, r))

NoCall == UNCHANGED <<expression, tokens, outputQueue, stack, applied, underflow,
                      result, thrown, pc, log>>

\* evaluateExpression writing the history line before it knows the outcome.
AfterParseAndEvaluate_LineFirst(r) ==
    /\ ~r.unmodelled
    /\ r.thrown = NoError => Printable(r.value)
    /\ Observe(display, r)
    /\ historyDisplay' = display \o <<" ", "=">>
    /\ IF r.thrown = NoError
       THEN /\ display' = NumberToString(r.value)
            /\ history' = addToHistory(history, display, r.value)
            /\ historyList' = renderHistory(history')
       ELSE /\ display' = r.thrown
            /\ UNCHANGED <<history, historyList>>
    /\ UNCHANGED memory

\* The body of evaluateExpression once parseAndEvaluate gave r.
AfterParseAndEvaluate(r) ==
    /\ ~r.unmodelled
    /\ r.thrown = NoError => Printable(r.value)
    /\ Observe(display, r)
    /\ IF r.thrown = NoError
       THEN /\ historyDisplay' = display \o <<" ", "=">>
            /\ display' = NumberToString(r.value)
            /\ history' = addToHistory(history, display, r.value)
            /\ historyList' = renderHistory(history')
       ELSE /\ display' = r.thrown
            /\ UNCHANGED <<historyDisplay, history, historyList>>
    /\ UNCHANGED memory

evaluateExpression == AfterParseAndEvaluate(parseAndEvaluate(display, isRadian))

clearDisplay ==
    /\ display' = <<>>
    /\ historyDisplay' = <<>>
    /\ UNCHANGED <<memory, history, historyList>>
    /\ NoCall

\* The body of handleMemory with currentValue = parseFloat(display.value) || 0.
MemoryKey(key, currentValue) ==
    /\ memory' = IF key = KeyMPlus THEN Add(memory, currentValue)
                 ELSE IF key = KeyMMinus THEN Sub(memory, currentValue)
                 ELSE IF key = KeyMC THEN Fin(1, 0, 1)
                 ELSE memory
    /\ IF key = KeyMR
       THEN Printable(memory) /\ display' = NumberToString(memory)
       ELSE display' = display
    /\ UNCHANGED <<historyDisplay, history, historyList>>
    /\ NoCall

handleMemory(key) == MemoryKey(key, OrZero(ParseFloatString(display)))

handleInput(key) ==
    IF key = KeyEquals \/ key = KeyEnter THEN evaluateExpression
    ELSE IF key = KeyC \/ key = KeyEscape THEN clearDisplay
    ELSE IF key = KeyBackspace THEN
        /\ display' = Pop(display)
        /\ UNCHANGED <<historyDisplay, memory, history, historyList>>
        /\ NoCall
    ELSE IF key \in {KeyMPlus, KeyMMinus, KeyMC, KeyMR} THEN handleMemory(key)
    ELSE
        /\ display' = display \o key
        /\ UNCHANGED <<historyDisplay, memory, history, historyList>>
        /\ NoCall

Step == steps < MaxSteps /\ steps' = steps + 1

\* A click on the keypad button whose data-key is key.
onKeyPress(key) ==
    /\ Step
    /\ handleInput(key)
    /\ UNCHANGED <<isRadian, checked>>

\* A key typed in the display.
onDisplayKeyDown(key) ==
    /\ Step
    /\ handleInput(key)
    /\ UNCHANGED <<isRadian, checked>>

clearHistory ==
    /\ Step
    /\ history' = <<>>
    /\ historyList' = renderHistory(history')
    /\ UNCHANGED <<display, historyDisplay, memory, isRadian, checked>>
    /\ NoCall

\* A click on the i-th <li> of the history list.
onHistoryClick(i) ==
    /\ Step
    /\ display' = Trim(BeforeEquals(historyList[i]))
    /\ UNCHANGED <<historyDisplay, memory, history, historyList, isRadian, checked>>
    /\ NoCall

\* The change listener of degRadToggle: the user has flipped the checkbox.
degRadToggleChange ==
    /\ Step
    /\ checked' = ~checked
    /\ isRadian' = checked'
    /\ UNCHANGED <<display, historyDisplay, memory, history, historyList>>
    /\ NoCall

ClickIndexes == {i \in 1..Len(historyList) : i <= MaxClick \/ i = Len(historyList)}

\* The state when DOMContentLoaded has run the script; the markup decides
\* whether the checkbox starts checked.
Init ==
    /\ display = <<>>
    /\ historyDisplay = <<>>
    /\ historyList = <<>>
    /\ checked \in BOOLEAN
    /\ memory = Fin(1, 0, 1)
    /\ isRadian = TRUE
    /\ history = <<>>
    /\ expression = <<>>
    /\ tokens = <<>>
    /\ outputQueue = <<>>
    /\ stack = <<>>
    /\ applied = 0
    /\ underflow = FALSE
    /\ result = Undefined
    /\ thrown = NoError
    /\ pc = "idle"
    /\ log = <<>>
    /\ steps = 0

Next ==
    \/ \E key \in ButtonKeys : onKeyPress(key)
    \/ \E key \in KeyboardKeys : onDisplayKeyDown(key)
    \/ clearHistory
    \/ \E i \in ClickIndexes : onHistoryClick(i)
    \/ degRadToggleChange

Spec == Init /\ [][Next]_vars

-----------------------------------------------------------------------------
(* parseAndEvaluate as a function of the expression and the angle mode     *)

\* Expressions are built from lexemes (strings) and handed over concatenated.
GenOperands == {<<"2">>, <<"3">>}
GenOperators == {<<"-">>, <<"/">>, <<"^">>}
GenFunctions == {fact, sqrt}
AllLexemes ==
    functions \cup Operators \cup {LParen, RParen}
    \cup {<<"2">>, <<"0">>, <<"2", ".", "5">>, <<"pi">>, <<"e">>, <<"i">>}

\* The well-formed lexeme sequences of length n: an operand, ( E ), f ( E ),
\* or E op E.
RECURSIVE WF(_)
WF(n) ==
    IF n <= 0 THEN {}
    ELSE IF n = 1 THEN {<<o>> : o \in GenOperands}
    ELSE {<<LParen>> \o a \o <<RParen>> : a \in WF(n - 2)}
         \cup {<<f, LParen>> \o a \o <<RParen>> : a \in WF(n - 3), f \in GenFunctions}
         \cup UNION {{a \o <<op>> \o b : a \in WF(k), b \in WF(n - 1 - k),
                                        op \in GenOperators} : k \in 1..(n - 2)}

WFUpTo(n) == UNION {WF(k) : k \in 1..n}

InsertAt(w, i, x) == SubSeq(w, 1, i) \o <<x>> \o SubSeq(w, i + 1, Len(w))
RemoveAt(w, i) == SubSeq(w, 1, i - 1) \o SubSeq(w, i + 1, Len(w))

\* A well-formed sequence with one parenthesis put in anywhere.
StrayParen ==
    {InsertAt(w[1], w[2], x) :
        w \in {<<v, i>> \in WFUpTo(MaxTokens - 1) \X (0..MaxTokens) : i <= Len(v)},
        x \in {LParen, RParen}}

\* A well-formed sequence with one lexeme taken out.
OneMissing ==
    {RemoveAt(w[1], w[2]) :
        w \in {<<v, i>> \in WFUpTo(MaxTokens) \X (1..MaxTokens) : i <= Len(v)}}

\* Every sequence of at most two lexemes.
Short == {<<>>} \cup {<<x>> : x \in AllLexemes} \cup {<<x, y>> : x, y \in AllLexemes}

\* a op1 b op2 c over all the operators, bare and with either pair grouped.
TwoOperators ==
    UNION {{<<a, o1, b, o2, c>>, <<LParen, a, o1, b, RParen, o2, c>>,
            <<a, o1, LParen, b, o2, c, RParen>>} :
           a \in GenOperands, b \in GenOperands, c \in GenOperands,
           o1 \in Operators, o2 \in Operators}

\* fact of n, of 0-n, of -n, of n.5 and of n/2.
FactArguments ==
    UNION {{<<NatToString(n)>>, <<<<"0">>, <<"-">>, NatToString(n)>>,
            <<<<"-">>, NatToString(n)>>,
            <<NatToString(n) \o <<".", "5">>>>, <<NatToString(n), <<"/">>, <<"2">>>>} :
           n \in 0..MaxFactArg}
FactCalls == {<<fact, LParen>> \o a \o <<RParen>> : a \in FactArguments}

\* f(x), and y op f(x), for every function f.
FunctionArguments == {<<"0">>, <<"1">>, <<"2">>, <<"0", ".", "5">>, <<"9", "0">>}
FunctionCalls ==
    UNION {{<<f, LParen, x, RParen>>, <<<<"2">>, o, f, LParen, x, RParen>>} :
           f \in functions, x \in FunctionArguments, o \in {<<"+">>, <<"*">>}}

Inputs ==
    {Concat(w) : w \in WFUpTo(MaxTokens) \cup StrayParen \cup OneMissing \cup Short
                       \cup TwoOperators \cup FactCalls \cup FunctionCalls}

\* The call parseAndEvaluate(display.value) that evaluateExpression makes,
\* taken alone.
parseAndEvaluateCall(r) ==
    /\ pc = "idle"
    /\ Step
    /\ ~r.unmodelled
    /\ Observe(display, r)
    /\ UNCHANGED <<display, historyDisplay, historyList, checked, memory, isRadian,
                   history>>

\* Any expression typed into the display, under either angle mode.
EvalInit ==
    /\ display \in Inputs
    /\ historyDisplay = <<>>
    /\ historyList = <<>>
    /\ isRadian \in BOOLEAN
    /\ checked = isRadian
    /\ memory = Fin(1, 0, 1)
    /\ history = <<>>
    /\ expression = <<>>
    /\ tokens = <<>>
    /\ outputQueue = <<>>
    /\ stack = <<>>
    /\ applied = 0
    /\ underflow = FALSE
    /\ result = Undefined
    /\ thrown = NoError
    /\ pc = "idle"
    /\ log = <<>>
    /\ steps = 0

EvalNext == parseAndEvaluateCall(parseAndEvaluate(display, isRadian))

EvalSpec == EvalInit /\ [][EvalNext]_vars

-----------------------------------------------------------------------------
(* The calculator with a history that earlier evaluations have filled      *)

\* The history after 1, 2, ..., n have been evaluated one after the other.
Prefilled(n) ==
    [i \in 1..n |-> [expression |-> NatToString(n + 1 - i), result |-> IntVal(n + 1 - i)]]

PrefilledLengths == {0, HistoryLimit - 1, HistoryLimit}

\* The state after n evaluations, the last one of the expression n.
HistInitAfter(n) ==
    /\ display = IF n = 0 THEN <<>> ELSE NatToString(n)
    /\ historyDisplay = IF n = 0 THEN <<>> ELSE NatToString(n) \o <<" ", "=">>
    /\ history = Prefilled(n)
    /\ historyList = renderHistory(history)
    /\ checked \in BOOLEAN
    /\ memory = Fin(1, 0, 1)
    /\ isRadian = TRUE
    /\ expression = IF n = 0 THEN <<>> ELSE NatToString(n)
    /\ tokens = IF n = 0 THEN <<>> ELSE <<NatToString(n)>>
    /\ outputQueue = IF n = 0 THEN <<>> ELSE <<Str(NatToString(n))>>
    /\ stack = IF n = 0 THEN <<>> ELSE <<IntVal(n)>>
    /\ applied = IF n = 0 THEN 0 ELSE 1
    /\ underflow = FALSE
    /\ result = IF n = 0 THEN Undefined ELSE IntVal(n)
    /\ thrown = NoError
    /\ pc = IF n = 0 THEN "idle" ELSE "returned"
    /\ log = <<>>
    /\ steps = 0

HistInit == \E n \in PrefilledLengths : HistInitAfter(n)

HistSpec == HistInit /\ [][Next]_vars

-----------------------------------------------------------------------------
(* Recognizers of token sequences                                          *)

IsOperand(t) == IsNumericLexeme(t) \/ t = <<"pi">> \/ t = <<"e">>

\* The index after the closing parenthesis expected at j, 0 when it is not there.
CloseAt(t, j) == IF j > 0 /\ j <= Len(t) /\ t[j] = RParen THEN j + 1 ELSE 0

\* The index after the expression (term) that starts at i, 0 when there is none.
RECURSIVE ExprEnd(_, _), TermEnd(_, _), ExprRest(_, _)
TermEnd(t, i) ==
    IF i > Len(t) THEN 0
    ELSE IF IsOperand(t[i]) THEN i + 1
    ELSE IF t[i] = LParen THEN CloseAt(t, ExprEnd(t, i + 1))
    ELSE IF t[i] \in functions /\ i < Len(t) /\ t[i + 1] = LParen
    THEN CloseAt(t, ExprEnd(t, i + 2))
    ELSE 0
ExprRest(t, j) ==
    IF j = 0 THEN 0
    ELSE IF j <= Len(t) /\ t[j] \in Operators THEN ExprRest(t, TermEnd(t, j + 1))
    ELSE j
ExprEnd(t, i) == ExprRest(t, TermEnd(t, i))

\* Operands, binary operators between two operands, functions applied to a
\* parenthesized argument, balanced parentheses.
WellFormed(t) == ExprEnd(t, 1) = Len(t) + 1

\* A well-formed sequence with one extra parenthesis paren somewhere.
OneStray(t, paren) ==
    \E i \in 1..Len(t) : t[i] = paren /\ WellFormed(RemoveAt(t, i))

Contains(q, x) == \E i \in 1..Len(q) : q[i] = x

TrigFunctions == {sin, cos, tan, asin, acos, atan}
TrigFree(t) == \A i \in 1..Len(t) : t[i] \notin TrigFunctions

Min(a, b) == IF a <= b THEN a ELSE b

-----------------------------------------------------------------------------
(* Properties of parseAndEvaluate (EvalSpec)                               *)

Level(op) == IF op = <<"^">> THEN 3 ELSE IF op \in {<<"*">>, <<"/">>} THEN 2 ELSE 1

Binary(op, a, b) == applyOperator(op, a, b, TRUE).value

IsOperandOperatorRun(t) ==
    /\ Len(t) = 5
    /\ \A i \in {1, 3, 5} : IsNumericLexeme(t[i])
    /\ \A i \in {2, 4} : t[i] \in Operators

\* C2: for a op1 b op2 c the postfix order is a b op1 c op2 when op1 binds
\* at least as tightly as op2 and a b c op2 op1 otherwise, so equal
\* precedence groups from the left and 2^3^2 is 64; a parenthesized
\* sub-expression is reduced before the operator outside it.
C2_PrecedenceAndGrouping ==
    pc # "idle" =>
        /\ IsOperandOperatorRun(tokens) =>
             LET a == tokens[1]  op1 == tokens[2]  b == tokens[3]
                 op2 == tokens[4]  c == tokens[5]
             IN  IF Level(op1) >= Level(op2)
                 THEN /\ outputQueue = <<Str(a), Str(b), Str(op1), Str(c), Str(op2)>>
                      /\ result = Binary(op2, Binary(op1, LexemeValue(a), LexemeValue(b)),
                                         LexemeValue(c))
                 ELSE /\ outputQueue = <<Str(a), Str(b), Str(c), Str(op2), Str(op1)>>
                      /\ result = Binary(op1, LexemeValue(a),
                                         Binary(op2, LexemeValue(b), LexemeValue(c)))
        /\ display = <<"2", "^", "3", "^", "2">> => result = IntVal(64)
        /\ (/\ Len(tokens) = 7
            /\ tokens[3] = LParen /\ tokens[7] = RParen
            /\ IsOperandOperatorRun(<<tokens[1], tokens[2], tokens[4], tokens[5], tokens[6]>>))
           => /\ outputQueue = <<Str(tokens[1]), Str(tokens[4]), Str(tokens[6]),
                                 Str(tokens[5]), Str(tokens[2])>>
              /\ result = Binary(tokens[2], LexemeValue(tokens[1]),
                                 Binary(tokens[5], LexemeValue(tokens[4]),
                                        LexemeValue(tokens[6])))
        /\ (/\ Len(tokens) = 7
            /\ tokens[1] = LParen /\ tokens[5] = RParen
            /\ IsOperandOperatorRun(<<tokens[2], tokens[3], tokens[4], tokens[6], tokens[7]>>))
           => /\ outputQueue = <<Str(tokens[2]), Str(tokens[4]), Str(tokens[3]),
                                 Str(tokens[7]), Str(tokens[6])>>
              /\ result = Binary(tokens[6], Binary(tokens[3], LexemeValue(tokens[2]),
                                                   LexemeValue(tokens[4])),
                                 LexemeValue(tokens[7]))

C2_Witness ==
    /\ pc = "returned"
    /\ display = <<"2", "^", "3", "^", "2">>
    /\ outputQueue = <<Str(<<"2">>), Str(<<"3">>), Str(<<"^">>), Str(<<"2">>), Str(<<"^">>)>>
    /\ result = IntVal(64)

\* C3 as stated: an operator or function that pops from an empty stack makes
\* the evaluation fail, so no value is returned.
C3_UnderflowFails == (pc # "idle" /\ underflow) => pc = "thrown"

RECURSIVE Product(_)
Product(n) == IF n = 0 THEN 1 ELSE n * Product(n - 1)

FactOf(arg) == Concat(<<fact, LParen>> \o arg \o <<RParen>>)

\* C7: fact(a) fails with 'Invalid factorial' when a is negative or has a
\* fractional part and is the product 1*2*...*a otherwise: fact(5) is 120,
\* fact(0) and fact(1) are 1, fact(0-1), fact(-1) and fact(2.5) fail.
C7_Factorial ==
    pc # "idle" =>
        \A n \in 0..MaxFactArg :
            /\ display = FactOf(<<NatToString(n)>>)
                 => pc = "returned" /\ result = IntVal(Product(n))
            /\ (n > 0 /\ display = FactOf(<<<<"0">>, <<"-">>, NatToString(n)>>))
                 => pc = "thrown" /\ thrown = InvalidFactorial
            /\ display = FactOf(<<<<"-">>, NatToString(n)>>)
                 => pc = "thrown" /\ thrown = InvalidFactorial
            /\ display = FactOf(<<NatToString(n) \o <<".", "5">>>>)
                 => pc = "thrown" /\ thrown = InvalidFactorial
            /\ display = FactOf(<<NatToString(n), <<"/">>, <<"2">>>>)
                 => IF n % 2 = 0
                    THEN pc = "returned" /\ result = IntVal(Product(n \div 2))
                    ELSE pc = "thrown" /\ thrown = InvalidFactorial

C7_Witness ==
    /\ pc = "returned"
    /\ display = FactOf(<<<<"5">>>>)
    /\ result = IntVal(120)

\* The name Math gives each trigonometric function.
MathName(f) ==
    CASE f = sin -> "sin" [] f = cos -> "cos" [] f = tan -> "tan"
      [] f = asin -> "asin" [] f = acos -> "acos" [] f = atan -> "atan"

\* C10: an expression without a trigonometric function has the same outcome
\* in both angle modes; sin, cos and tan take their argument multiplied by
\* pi/180 exactly in Degree mode, asin, acos and atan give their result
\* multiplied by 180/pi exactly in Degree mode.
C10_AngleMode ==
    pc # "idle" =>
        /\ TrigFree(tokens) =>
             /\ ~parseAndEvaluate(display, ~isRadian).unmodelled
             /\ parseAndEvaluate(display, ~isRadian).thrown = thrown
             /\ parseAndEvaluate(display, ~isRadian).value
                  = IF thrown = NoError THEN result ELSE parseAndEvaluate(display, isRadian).value
        /\ \A x \in FunctionArguments :
             /\ \A f \in {sin, cos, tan} :
                  display = Concat(<<f, LParen, x, RParen>>) =>
                      result = MathTrig(MathName(f),
                                        IF isRadian THEN LexemeValue(x)
                                        ELSE Div(Mul(LexemeValue(x), MathPI), IntVal(180)))
             /\ \A f \in {asin, acos, atan} :
                  display = Concat(<<f, LParen, x, RParen>>) =>
                      result = IF isRadian THEN MathInvTrig(MathName(f), LexemeValue(x))
                               ELSE Div(Mul(MathInvTrig(MathName(f), LexemeValue(x)),
                                            IntVal(180)), MathPI)

C10_Witness ==
    /\ pc = "returned"
    /\ ~isRadian
    /\ display = <<"s", "i", "n", "(", "9", "0", ")">>
    /\ result = Sym("sin", <<Div(Mul(IntVal(90), MathPI), IntVal(180))>>)

-----------------------------------------------------------------------------
(* Properties of the calculator (Spec, HistSpec)                           *)

\* A step that made a call of parseAndEvaluate.
Evaluated == Len(log') = Len(log) + 1

\* C5: the history never holds more than 50 entries; a successful
\* evaluation puts its entry first, in front of the older entries in their
\* order, less the last of them when there were 50; nothing else changes
\* the history but a clear, which empties it.
C5_HistoryBounded ==
    /\ [](Len(history) <= HistoryLimit /\ Len(historyList) = Len(history))
    /\ [][IF Evaluated /\ pc' = "returned"
          THEN history' = <<[expression |-> expression', result |-> result']>>
                          \o SubSeq(history, 1, Min(Len(history), HistoryLimit - 1))
          ELSE history' = history \/ (history' = <<>> /\ UNCHANGED display)]_vars

C5_Witness ==
    /\ pc = "returned"
    /\ steps >= 2
    /\ Len(history) = HistoryLimit
    /\ history[1].expression = expression
    /\ history[2] = Prefilled(HistoryLimit)[1]
    /\ history[HistoryLimit] = Prefilled(HistoryLimit)[HistoryLimit - 1]

\* C6 as stated: once an evaluation has failed and the display shows the
\* message, the next key typed starts a fresh expression, so the display
\* does not keep the message in front of the key.
C6_NextKeyStartsFresh ==
    [][(pc = "thrown" /\ display = thrown /\ ~Evaluated /\ Len(display') > Len(display))
        => ~HasPrefixAt(display', 1, thrown)]_vars

SameCall(c1, c2) == c1.expression = c2.expression /\ c1.isRadian = c2.isRadian

C9_FailureAborts ==
    [][(Evaluated /\ pc' = "thrown") =>
        /\ thrown' \in {InvalidOperator, InvalidFactorial}
        /\ display' = thrown'
        /\ UNCHANGED <<historyDisplay, history, historyList, memory, isRadian, checked>>
        /\ result' = Undefined
        /\ applied' < Len(outputQueue')
        /\ isNaN(outputQueue'[applied' + 1])
        /\ evaluatePostfix(SubSeq(outputQueue', 1, applied'), isRadian).thrown = NoError
        /\ Len(stack') <= Len(evaluatePostfix(SubSeq(outputQueue', 1, applied'), isRadian).stack)
        /\ stack' = SubSeq(evaluatePostfix(SubSeq(outputQueue', 1, applied'), isRadian).stack,
                           1, Len(stack'))]_vars

C9_Witness ==
    /\ pc = "thrown"
    /\ display = thrown
    /\ applied >= 1
    /\ applied + 1 < Len(outputQueue)
    /\ history # <<>>
    /\ historyDisplay # <<>>

====
